---- MODULE Spec2Model ----
(***************************************************************************)
(* A model of redaxios (src/src/index.ts): the instance factory `create`,  *)
(* the request pipeline `redaxios` and the configuration merger            *)
(* `deepMerge`.                                                            *)
(*                                                                         *)
(* JavaScript strings are sequences of one-character strings, so that      *)
(* toLowerCase, the baseURL regular expression, String.prototype.replace   *)
(* and JSON.stringify are computed character by character.  JavaScript     *)
(* values are tagged records.  A plain object is an insertion-ordered      *)
(* sequence of entries [k, v]; an object that the caller created lives on  *)
(* the heap and is held by reference (Ref), an object that deepMerge       *)
(* created during a call is held by value (Obj) by the one call that owns  *)
(* it.                                                                     *)
(***************************************************************************)
EXTENDS Integers, Sequences, FiniteSets, TLC

\* ------------------------------------------------------------------------
\* Bounds of the model
\* ------------------------------------------------------------------------
MaxCalls == 2
MaxWrites == 1
MaxLen == 2

\* ------------------------------------------------------------------------
\* JavaScript values
\* ------------------------------------------------------------------------
Undef == [t |-> "undefined"]
Null == [t |-> "null"]
Str(s) == [t |-> "string", s |-> s]
Num(n) == [t |-> "number", n |-> n]
Bool(b) == [t |-> "boolean", b |-> b]
Arr(a) == [t |-> "array", a |-> a]
Fn(f) == [t |-> "function", f |-> f]
Ref(id) == [t |-> "ref", id |-> id]
Obj(e) == [t |-> "object", e |-> e]
Host(h) == [t |-> "host", h |-> h]

\* JavaScript truthiness (ToBoolean).
Truthy(v) ==
    CASE v.t = "undefined" -> FALSE
      [] v.t = "null" -> FALSE
      [] v.t = "string" -> v.s /= <<>>
      [] v.t = "number" -> v.n /= 0
      [] v.t = "boolean" -> v.b
      [] OTHER -> TRUE

\* typeof v === 'object' (null included, as in JavaScript).
TypeofObject(v) == v.t \in {"null", "array", "ref", "object", "host"}

\* Array.isArray(v)
IsArray(v) == v.t = "array"

\* `a || b`
OrElse(a, b) == IF Truthy(a) THEN a ELSE b

\* ------------------------------------------------------------------------
\* Strings
\* ------------------------------------------------------------------------
UpperLetters == <<"A","B","C","D","E","F","G","H","I","J","K","L","M",
                  "N","O","P","Q","R","S","T","U","V","W","X","Y","Z">>
LowerLetters == <<"a","b","c","d","e","f","g","h","i","j","k","l","m",
                  "n","o","p","q","r","s","t","u","v","w","x","y","z">>

IndexIn(letters, c) ==
    IF \E i \in DOMAIN letters : letters[i] = c
    THEN CHOOSE i \in DOMAIN letters : letters[i] = c
    ELSE 0

LowerChar(c) == IF IndexIn(UpperLetters, c) = 0 THEN c ELSE LowerLetters[IndexIn(UpperLetters, c)]
UpperChar(c) == IF IndexIn(LowerLetters, c) = 0 THEN c ELSE UpperLetters[IndexIn(LowerLetters, c)]

\* String.prototype.toLowerCase / toUpperCase
ToLowerCase(s) == [i \in DOMAIN s |-> LowerChar(s[i])]
ToUpperCase(s) == [i \in DOMAIN s |-> UpperChar(s[i])]

\* String.prototype.indexOf(sub), 0-based, -1 when absent
IndexOf(s, sub) ==
    LET hits == {i \in 1..(Len(s) - Len(sub) + 1) : SubSeq(s, i, i + Len(sub) - 1) = sub}
    IN IF hits = {} THEN -1 ELSE (CHOOSE i \in hits : \A j \in hits : i <= j) - 1

kUrl == <<"u", "r", "l">>
kMethod == <<"m", "e", "t", "h", "o", "d">>
kHeaders == <<"h", "e", "a", "d", "e", "r", "s">>
kData == <<"d", "a", "t", "a">>
kTransformRequest == <<"t", "r", "a", "n", "s", "f", "o", "r", "m", "R", "e", "q", "u", "e", "s", "t">>
kAuth == <<"a", "u", "t", "h">>
kBaseURL == <<"b", "a", "s", "e", "U", "R", "L">>
kParams == <<"p", "a", "r", "a", "m", "s">>
kParamsSerializer == <<"p", "a", "r", "a", "m", "s", "S", "e", "r", "i", "a", "l", "i", "z", "e", "r">>
kXsrfCookieName == <<"x", "s", "r", "f", "C", "o", "o", "k", "i", "e", "N", "a", "m", "e">>
kXsrfHeaderName == <<"x", "s", "r", "f", "H", "e", "a", "d", "e", "r", "N", "a", "m", "e">>
kResponseType == <<"r", "e", "s", "p", "o", "n", "s", "e", "T", "y", "p", "e">>
kValidateStatus == <<"v", "a", "l", "i", "d", "a", "t", "e", "S", "t", "a", "t", "u", "s">>
kWithCredentials == <<"w", "i", "t", "h", "C", "r", "e", "d", "e", "n", "t", "i", "a", "l", "s">>
kFetch == <<"f", "e", "t", "c", "h">>
sAuthorization == <<"a", "u", "t", "h", "o", "r", "i", "z", "a", "t", "i", "o", "n">>
sContentType == <<"c", "o", "n", "t", "e", "n", "t", "-", "t", "y", "p", "e">>
sApplicationJson == <<"a", "p", "p", "l", "i", "c", "a", "t", "i", "o", "n", "/", "j", "s", "o", "n">>
sGet == <<"g", "e", "t">>
sPost == <<"p", "o", "s", "t">>
sStream == <<"s", "t", "r", "e", "a", "m">>
sText == <<"t", "e", "x", "t">>
sJson == <<"j", "s", "o", "n">>
sBlob == <<"b", "l", "o", "b">>
sArrayBuffer == <<"a", "r", "r", "a", "y", "B", "u", "f", "f", "e", "r">>
sFormData == <<"f", "o", "r", "m", "D", "a", "t", "a">>
sInclude == <<"i", "n", "c", "l", "u", "d", "e">>

\* ------------------------------------------------------------------------
\* Plain objects: insertion-ordered entries
\* ------------------------------------------------------------------------
\* `k in o`
HasKey(e, k) == \E i \in DOMAIN e : e[i].k = k

\* `o[k]` (undefined when the key is absent)
GetKey(e, k) ==
    IF HasKey(e, k) THEN e[CHOOSE i \in DOMAIN e : e[i].k = k].v ELSE Undef

\* `o[k] = v`: an existing key keeps its position, a new key goes last
PutKey(e, k, v) ==
    IF HasKey(e, k)
    THEN [i \in DOMAIN e |-> IF e[i].k = k THEN [k |-> k, v |-> v] ELSE e[i]]
    ELSE Append(e, [k |-> k, v |-> v])

\* The enumerable entries `for (i in v)` visits, in order.  Numbers,
\* booleans, functions, null and undefined enumerate nothing.
EntriesOf(h, v) ==
    CASE v.t = "ref" -> h[v.id]
      [] v.t = "object" -> v.e
      [] OTHER -> <<>>

\* ------------------------------------------------------------------------
\* deepMerge (src/src/index.ts:212-238)
\* ------------------------------------------------------------------------
\* Array.prototype.concat(x): an array argument is spread, anything else
\* is appended as one element.
Concat(a, x) == IF IsArray(x) THEN a \o x.a ELSE Append(a, x)

\* line 232: key in out && typeof value === 'object' && value !== null
\*           && !Array.isArray(value)
MergeRecursively(out, key, value) ==
    /\ HasKey(out, key)
    /\ TypeofObject(value)
    /\ value.t /= "null"
    /\ ~IsArray(value)

RECURSIVE deepMerge(_, _, _, _)
deepMerge(h, opts, overrides, lowerCase) ==
    IF IsArray(opts)
    THEN Arr(Concat(opts.a, overrides))
    ELSE
      LET src == EntriesOf(h, opts)
          ovr == EntriesOf(h, overrides)
          Key(k) == IF lowerCase THEN ToLowerCase(k) ELSE k
          copied[n \in 0..Len(src)] ==
              IF n = 0 THEN <<>>
              ELSE PutKey(copied[n - 1], Key(src[n].k), src[n].v)
          merged[n \in 0..Len(ovr)] ==
              IF n = 0 THEN copied[Len(src)]
              ELSE LET out == merged[n - 1]
                       key == Key(ovr[n].k)
                       value == ovr[n].v
                   IN PutKey(out, key,
                         IF MergeRecursively(out, key, value)
                         THEN deepMerge(h, GetKey(out, key), value, key = kHeaders)
                         ELSE value)
      IN Obj(merged[Len(ovr)])

\* ------------------------------------------------------------------------
\* Built-ins the pipeline calls
\* ------------------------------------------------------------------------
\* The grave accent (code 96), which a TLA+ string cannot hold
Backtick == "U+0060"

Digits == <<"0", "1", "2", "3", "4", "5", "6", "7", "8", "9">>

\* Number.prototype.toString for a natural number
RECURSIVE NumStr(_)
NumStr(n) == IF n < 10 THEN <<Digits[n + 1]>> ELSE NumStr(n \div 10) \o <<Digits[(n % 10) + 1]>>

\* Flattening of a sequence of strings
RECURSIVE Flatten(_)
Flatten(ss) == IF ss = <<>> THEN <<>> ELSE Head(ss) \o Flatten(Tail(ss))

\* JSON string literal: the quote and the backslash are escaped (control
\* characters do not occur in the strings of the model).
Quote(s) ==
    <<"\"">> \o Flatten([i \in DOMAIN s |->
                  IF s[i] \in {"\"", "\\"} THEN <<"\\", s[i]>> ELSE <<s[i]>>]) \o <<"\"">>

JsonThrow == [ok |-> FALSE, s |-> <<>>]
JsonOk(s) == [ok |-> TRUE, s |-> s]

\* JSON.stringify(v).  `stack` holds the heap objects being serialised: a
\* value that contains one of them is circular and makes JSON.stringify
\* throw a TypeError, as a BigInt does.  Object members whose value is
\* undefined or a function are left out.
RECURSIVE JSONStringify(_, _, _)
JSONStringify(h, v, stack) ==
    CASE v.t = "string" -> JsonOk(Quote(v.s))
      [] v.t = "number" -> JsonOk(NumStr(v.n))
      [] v.t = "boolean" -> JsonOk(IF v.b THEN <<"t", "r", "u", "e">> ELSE <<"f", "a", "l", "s", "e">>)
      [] v.t = "null" -> JsonOk(<<"n", "u", "l", "l">>)
      [] v.t = "bigint" -> JsonThrow
      [] v.t = "ref" /\ v.id \in stack -> JsonThrow
      [] v.t = "array" ->
            LET parts == [i \in DOMAIN v.a |->
                            IF v.a[i].t \in {"undefined", "function"}
                            THEN JsonOk(<<"n", "u", "l", "l">>)
                            ELSE JSONStringify(h, v.a[i], stack)]
            IN IF \E i \in DOMAIN parts : ~parts[i].ok THEN JsonThrow
               ELSE JsonOk(<<"[">> \o
                           Flatten([i \in DOMAIN parts |->
                               (IF i > 1 THEN <<",">> ELSE <<>>) \o parts[i].s]) \o
                           <<"]">>)
      [] v.t \in {"ref", "object", "host"} ->
            LET inner == IF v.t = "ref" THEN stack \cup {v.id} ELSE stack
                all == EntriesOf(h, v)
                kept == SelectSeq(all, LAMBDA e : e.v.t \notin {"undefined", "function"})
                parts == [i \in DOMAIN kept |-> JSONStringify(h, kept[i].v, inner)]
            IN IF \E i \in DOMAIN parts : ~parts[i].ok THEN JsonThrow
               ELSE JsonOk(<<"{">> \o
                           Flatten([i \in DOMAIN parts |->
                               (IF i > 1 THEN <<",">> ELSE <<>>) \o
                               Quote(kept[i].k) \o <<":">> \o parts[i].s]) \o
                           <<"}">>)
      [] OTHER -> JsonOk(<<>>)

\* typeof v[name] === 'function': a FormData has `append`, a Blob has
\* `text`; a plain object has the method when it holds a function there.
HasMethod(h, v, name) ==
    CASE v.t = "host" -> \/ (v.h = "FormData" /\ name = <<"a", "p", "p", "e", "n", "d">>)
                         \/ (v.h = "Blob" /\ name = sText)
      [] v.t \in {"ref", "object"} -> GetKey(EntriesOf(h, v), name).t = "function"
      [] OTHER -> FALSE

\* The line terminators `.` does not match in a regular expression
LineTerminators == {"\n", "\r"}

\* The lookahead of /^(?!.*\/\/)\/?/ : `.*\/\/` matches at the start
NotFollowedByDoubleSlash(url) ==
    ~\E i \in 1..(Len(url) - 1) :
        /\ url[i] = "/"
        /\ url[i + 1] = "/"
        /\ \A j \in 1..(i - 1) : url[j] \notin LineTerminators

\* GetSubstitution of String.prototype.replace for a pattern without
\* capture groups that matched `matched` at the start of the string,
\* followed by `suffix`: $$ is a dollar sign, $& the match, $ and a grave
\* accent the text before the match (empty), $ and an apostrophe the text
\* after it.
RECURSIVE GetSubstitution(_, _, _)
GetSubstitution(rep, matched, suffix) ==
    IF rep = <<>> THEN <<>>
    ELSE IF Head(rep) = "$" /\ Len(rep) >= 2 /\ rep[2] \in {"$", "&", Backtick, "'"}
    THEN (CASE rep[2] = "$" -> <<"$">>
            [] rep[2] = "&" -> matched
            [] rep[2] = Backtick -> <<>>
            [] rep[2] = "'" -> suffix)
         \o GetSubstitution(SubSeq(rep, 3, Len(rep)), matched, suffix)
    ELSE <<Head(rep)>> \o GetSubstitution(Tail(rep), matched, suffix)

\* line 129: url.replace(/^(?!.*\/\/)\/?/, replacement)
ReplaceBase(url, replacement) ==
    IF ~NotFollowedByDoubleSlash(url) THEN url
    ELSE LET matched == IF url /= <<>> /\ Head(url) = "/" THEN <<"/">> ELSE <<>>
             suffix == SubSeq(url, Len(matched) + 1, Len(url))
         IN GetSubstitution(replacement, matched, suffix) \o suffix

\* The printable ASCII characters, code 32 to 126, in code order
PrintableAscii ==
    <<
      " ", "!", "\"", "#", "$", "%", "&", "'", "(", ")", "*", "+", ",", "-", ".", "/",
      "0", "1", "2", "3", "4", "5", "6", "7", "8", "9", ":", ";", "<", "=", ">", "?",
      "@", "A", "B", "C", "D", "E", "F", "G", "H", "I", "J", "K", "L", "M", "N", "O",
      "P", "Q", "R", "S", "T", "U", "V", "W", "X", "Y", "Z", "[", "\\", "]", "^", "_",
      Backtick, "a", "b", "c", "d", "e", "f", "g", "h", "i", "j", "k", "l", "m", "n", "o",
      "p", "q", "r", "s", "t", "u", "v", "w", "x", "y", "z", "{", "|", "}", "~"
    >>

HexDigits == <<"0", "1", "2", "3", "4", "5", "6", "7", "8", "9", "A", "B", "C", "D", "E", "F">>

\* The code of a printable ASCII character
CharCode(c) == IndexIn(PrintableAscii, c) + 31

\* The value of a hexadecimal digit, -1 for any other character
HexValue(c) == IndexIn(HexDigits, UpperChar(c)) - 1

DecodeThrow == [ok |-> FALSE, s |-> <<>>]

\* decodeURIComponent(s): %XX is the character of that code; a % that is
\* not followed by two hexadecimal digits, or a code that does not start a
\* well-formed UTF-8 sequence, is a URIError.  (Printable ASCII only:
\* multi-byte sequences do not occur in the model.)
RECURSIVE DecodeURIComponent(_)
DecodeURIComponent(s) ==
    IF s = <<>> THEN [ok |-> TRUE, s |-> <<>>]
    ELSE IF Head(s) /= "%"
    THEN LET rest == DecodeURIComponent(Tail(s))
         IN IF rest.ok THEN [ok |-> TRUE, s |-> <<Head(s)>> \o rest.s] ELSE DecodeThrow
    ELSE IF Len(s) < 3 \/ HexValue(s[2]) < 0 \/ HexValue(s[3]) < 0 THEN DecodeThrow
    ELSE LET code == 16 * HexValue(s[2]) + HexValue(s[3])
             rest == DecodeURIComponent(SubSeq(s, 4, Len(s)))
         IN IF code < 32 \/ code > 126 \/ ~rest.ok THEN DecodeThrow
            ELSE [ok |-> TRUE, s |-> <<PrintableAscii[code - 31]>> \o rest.s]

\* document.cookie.match(RegExp('(^|; )' + name + '=([^;]*)')) for a name
\* without regular-expression metacharacters: the start of the leftmost
\* occurrence of name= at the start of the string or after "; ", 0 if none
CookieMatchStart(cookie, name) ==
    LET pat == name \o <<"=">>
        hits == {p \in 1..(Len(cookie) - Len(pat) + 1) :
                    /\ SubSeq(cookie, p, p + Len(pat) - 1) = pat
                    /\ \/ p = 1
                       \/ (p >= 3 /\ cookie[p - 2] = ";" /\ cookie[p - 1] = " ")}
    IN IF hits = {} THEN 0 ELSE CHOOSE p \in hits : \A r \in hits : p <= r

\* match[2]: the longest run of characters other than ";" after name=
RECURSIVE UpToSemicolon(_)
UpToSemicolon(s) ==
    IF s = <<>> \/ Head(s) = ";" THEN <<>> ELSE <<Head(s)>> \o UpToSemicolon(Tail(s))

CookieMatchValue(cookie, name) ==
    UpToSemicolon(SubSeq(cookie, CookieMatchStart(cookie, name) + Len(name) + 1, Len(cookie)))

\* application/x-www-form-urlencoded byte serialisation of one character
FormEncodeChar(c) ==
    IF \/ IndexIn(UpperLetters, c) > 0 \/ IndexIn(LowerLetters, c) > 0
       \/ IndexIn(Digits, c) > 0 \/ c \in {"*", "-", ".", "_"}
    THEN <<c>>
    ELSE IF c = " " THEN <<"+">>
    ELSE <<"%", HexDigits[(CharCode(c) \div 16) + 1], HexDigits[(CharCode(c) % 16) + 1]>>

FormEncode(s) == Flatten([i \in DOMAIN s |-> FormEncodeChar(s[i])])

\* String(v) for the strings and numbers a params mapping holds
ToStringValue(v) ==
    CASE v.t = "string" -> v.s
      [] v.t = "number" -> NumStr(v.n)
      [] OTHER -> <<>>

\* new URLSearchParams(params).toString() for a plain mapping
URLSearchParamsToString(h, params) ==
    LET e == EntriesOf(h, params)
    IN Flatten([i \in DOMAIN e |->
           (IF i > 1 THEN <<"&">> ELSE <<>>) \o
           FormEncode(e[i].k) \o <<"=">> \o FormEncode(ToStringValue(e[i].v))])

\* ------------------------------------------------------------------------
\* The functions a caller puts into a configuration
\* ------------------------------------------------------------------------
xAdded == <<"X", "-", "A", "d", "d", "e", "d">>

TransformResult(threw, ret, h, hdrs) == [threw |-> threw, ret |-> ret, heap |-> h, headers |-> hdrs]

\* f(data, options.headers) for the transformRequest functions of the model:
\*   addHeader   (d, h) => { h['X-Added'] = '1' }   writes to the headers
\*               argument and returns nothing; with no headers mapping the
\*               assignment throws a TypeError
\*   appendA     (d) => (typeof d === 'string' ? d : '') + 'a'
\*   appendB     (d) => (typeof d === 'string' ? d : '') + 'b'
\*   returnEmpty ()  => ''
ApplyTransform(f, data, hdrs, h) ==
    CASE f = "addHeader" ->
            (CASE hdrs.t = "ref" ->
                    TransformResult(FALSE, Undef,
                        [h EXCEPT ![hdrs.id] = PutKey(@, xAdded, Str(<<"1">>))], hdrs)
               [] hdrs.t = "object" ->
                    TransformResult(FALSE, Undef, h, Obj(PutKey(hdrs.e, xAdded, Str(<<"1">>))))
               [] OTHER -> TransformResult(TRUE, Undef, h, hdrs))
      [] f = "appendA" ->
            TransformResult(FALSE, Str((IF data.t = "string" THEN data.s ELSE <<>>) \o <<"a">>), h, hdrs)
      [] f = "appendB" ->
            TransformResult(FALSE, Str((IF data.t = "string" THEN data.s ELSE <<>>) \o <<"b">>), h, hdrs)
      [] OTHER -> TransformResult(FALSE, Str(<<>>), h, hdrs)

\* options.validateStatus(status):  lt500 is (s) => s < 500,
\* never is () => false, always is () => true
ApplyValidateStatus(f, status) ==
    CASE f = "lt500" -> status < 500
      [] f = "always" -> TRUE
      [] OTHER -> FALSE

\* options.paramsSerializer(params): the one serializer of the model is
\* () => 'p=1'
ApplyParamsSerializer(f, params) == <<"p", "=", "1">>

\* lines 104-106: the transform chain.  st is [threw, data, headers, heap];
\* an element that is not a function cannot be called (TypeError).
RECURSIVE RunTransforms(_, _)
RunTransforms(fs, st) ==
    IF fs = <<>> \/ st.threw THEN st
    ELSE IF Head(fs).t /= "function" THEN [st EXCEPT !.threw = TRUE]
    ELSE LET r == ApplyTransform(Head(fs).f, st.data, st.headers, st.heap)
         IN RunTransforms(Tail(fs),
                [threw |-> r.threw,
                 data |-> OrElse(r.ret, st.data),      \* line 105: f(...) || data
                 headers |-> r.headers,
                 heap |-> r.heap])

\* ------------------------------------------------------------------------
\* The synchronous part of redaxios (src/src/index.ts:81-144)
\*
\* The steps are applied in the order of the source to a record p that
\* holds the locals of the call: url, config, options, data, customHeaders
\* (custom), the heap, and whether a step threw.
\* ------------------------------------------------------------------------
\* line 102: data = data || options.data
DataSource(data, options) == OrElse(data, GetKey(options, kData))

\* lines 88-102: argument normalisation, config resolution, data source
Resolve(h, defaults, urlOrConfig, config, method, data, doc) ==
    LET cfg == IF urlOrConfig.t /= "string" THEN urlOrConfig ELSE config
        resolved == deepMerge(h, Ref(defaults), OrElse(cfg, Obj(<<>>)), FALSE).e
    IN [heap |-> h,
        doc |-> doc,
        method |-> method,
        url |-> IF urlOrConfig.t /= "string"
                THEN OrElse(GetKey(EntriesOf(h, cfg), kUrl), Str(<<>>)).s
                ELSE urlOrConfig.s,
        config |-> OrElse(cfg, Obj(<<>>)),
        options |-> resolved,
        data |-> DataSource(data, resolved),
        entered |-> DataSource(data, resolved),
        chain |-> OrElse(GetKey(resolved, kTransformRequest), Arr(<<>>)),
        custom |-> <<>>,
        threw |-> FALSE]

\* lines 104-106: (options.transformRequest || []).forEach(...)
Transform(p) ==
    IF ~IsArray(p.chain) THEN [p EXCEPT !.threw = TRUE]
    ELSE LET st == RunTransforms(p.chain.a,
                       [threw |-> FALSE, data |-> p.data,
                        headers |-> GetKey(p.options, kHeaders), heap |-> p.heap])
         IN [p EXCEPT !.threw = st.threw,
                      !.data = st.data,
                      !.heap = st.heap,
                      !.options = IF HasKey(p.options, kHeaders)
                                  THEN PutKey(p.options, kHeaders, st.headers)
                                  ELSE p.options]

\* lines 108-110
AuthHeader(p) ==
    IF ~p.threw /\ Truthy(GetKey(p.options, kAuth))
    THEN [p EXCEPT !.custom = PutKey(p.custom, sAuthorization, GetKey(p.options, kAuth))]
    ELSE p

\* line 112: the body is serialised as JSON
IsJsonBody(h, data) ==
    /\ Truthy(data)
    /\ TypeofObject(data)
    /\ ~HasMethod(h, data, <<"a", "p", "p", "e", "n", "d">>)
    /\ ~HasMethod(h, data, sText)

\* lines 112-115: a throw of JSON.stringify leaves redaxios
EncodeBody(p) ==
    IF p.threw \/ ~IsJsonBody(p.heap, p.data) THEN p
    ELSE LET js == JSONStringify(p.heap, p.data, {})
         IN IF ~js.ok THEN [p EXCEPT !.threw = TRUE]
            ELSE [p EXCEPT !.data = Str(js.s),
                           !.custom = PutKey(p.custom, sContentType, Str(sApplicationJson))]

\* lines 117-126: the XSRF header; a throw of decodeURIComponent is caught
XsrfHeader(p) ==
    LET cn == GetKey(p.options, kXsrfCookieName)
        hn == GetKey(p.options, kXsrfHeaderName)
    IN IF ~p.threw /\ Truthy(cn) /\ Truthy(hn) /\ p.doc.t /= "undefined"
          /\ CookieMatchStart(p.doc.s, cn.s) > 0
          /\ DecodeURIComponent(CookieMatchValue(p.doc.s, cn.s)).ok
       THEN [p EXCEPT !.custom =
                PutKey(p.custom, hn.s, Str(DecodeURIComponent(CookieMatchValue(p.doc.s, cn.s)).s))]
       ELSE p

\* lines 128-130
ComposeBaseURL(p) ==
    IF ~p.threw /\ Truthy(GetKey(p.options, kBaseURL))
    THEN [p EXCEPT !.url = ReplaceBase(p.url, GetKey(p.options, kBaseURL).s \o <<"/">>)]
    ELSE p

\* lines 132-136
ComposeQuery(p) ==
    IF ~p.threw /\ Truthy(GetKey(p.options, kParams))
    THEN [p EXCEPT !.url =
            p.url \o (IF IndexOf(p.url, <<"?">>) /= -1 THEN <<"&">> ELSE <<"?">>)
                  \o (IF Truthy(GetKey(p.options, kParamsSerializer))
                      THEN ApplyParamsSerializer(GetKey(p.options, kParamsSerializer).f,
                                                 GetKey(p.options, kParams))
                      ELSE URLSearchParamsToString(p.heap, GetKey(p.options, kParams)))]
    ELSE p

\* Mutation of FinalHeaders: the merge takes its arguments in the other
\* order, so that a header of the caller replaces the computed one
FinalHeadersCallerWins(h, options, custom) ==
    deepMerge(h, Obj(custom), OrElse(GetKey(options, kHeaders), Obj(<<>>)), TRUE)

\* line 143: deepMerge(options.headers || {}, customHeaders, true)
FinalHeaders(h, options, custom) ==
    deepMerge(h, OrElse(GetKey(options, kHeaders), Obj(<<>>)), Obj(custom), TRUE)

NoRequest == [sent |-> FALSE]

\* lines 138-145: what is handed to the transport (nothing when a step
\* threw: the exception left redaxios before the transport was invoked)
Dispatch(p) ==
    [threw |-> p.threw,
     error |-> IF p.threw THEN "TypeError" ELSE "",
     heap |-> p.heap,
     config |-> p.config,
     options |-> p.options,
     entered |-> p.entered,
     chain |-> p.chain,
     custom |-> p.custom,
     request |->
        IF p.threw THEN NoRequest
        ELSE [sent |-> TRUE,
              url |-> p.url,
              method |-> ToUpperCase(OrElse(OrElse(p.method, GetKey(p.options, kMethod)),
                                            Str(sGet)).s),
              body |-> p.data,
              headers |-> FinalHeaders(p.heap, p.options, p.custom).e,
              credentials |-> IF Truthy(GetKey(p.options, kWithCredentials))
                              THEN Str(sInclude) ELSE Undef]]

\* The call redaxios(urlOrConfig, config, _method, data) on an instance
\* whose closure holds the heap object `defaults`, with `doc` the ambient
\* document (Undef when there is none, else its cookie string).
redaxios(h, defaults, urlOrConfig, config, method, data, doc) ==
    Dispatch(ComposeQuery(ComposeBaseURL(XsrfHeader(EncodeBody(AuthHeader(Transform(
        Resolve(h, defaults, urlOrConfig, config, method, data, doc))))))))

\* ------------------------------------------------------------------------
\* The response side (src/src/index.ts:145-175)
\* ------------------------------------------------------------------------
\* JSON.parse(text) for the response texts of the model, which are written
\* with the characters 0, 1, o, k, { and } only: over these the JSON texts
\* are the natural numbers without a leading zero and the empty object.
IsJsonNumber(s) ==
    /\ s /= <<>>
    /\ \A i \in DOMAIN s : s[i] \in {"0", "1"}
    /\ (Len(s) > 1 => s[1] /= "0")

RECURSIVE ParseNat(_)
ParseNat(s) ==
    IF s = <<>> THEN 0
    ELSE 10 * ParseNat(SubSeq(s, 1, Len(s) - 1)) + (IndexIn(Digits, s[Len(s)]) - 1)

ParseThrow == [ok |-> FALSE, v |-> Undef]

JSONParseText(s) ==
    IF IsJsonNumber(s) THEN [ok |-> TRUE, v |-> Num(ParseNat(s))]
    ELSE IF s = <<"{", "}">> THEN [ok |-> TRUE, v |-> Obj(<<>>)]
    ELSE ParseThrow

\* JSON.parse(v): the argument is converted to a string first.  An object
\* or a host object converts to "[object ...]", which is no JSON text.
JSONParse(v) ==
    CASE v.t = "string" -> JSONParseText(v.s)
      [] v.t \in {"number", "boolean", "null"} -> [ok |-> TRUE, v |-> v]
      [] OTHER -> ParseThrow

\* lines 159-166: the decode promise fulfilled with v
DecodedData(v) == IF JSONParse(v).ok THEN JSONParse(v).v ELSE v

\* line 152
IsStream(options) ==
    LET rt == GetKey(options, kResponseType)
    IN rt.t = "string" /\ rt.s = sStream

\* line 157: options.responseType || 'text'
DecodeMethod(options) == OrElse(GetKey(options, kResponseType), Str(sText)).s

\* Mutation of StatusOk: a call without validateStatus counts as successful
StatusOkLenient(options, raw) ==
    LET vs == GetKey(options, kValidateStatus)
    IN IF Truthy(vs) THEN ApplyValidateStatus(vs.f, raw.status) ELSE TRUE

\* line 172
StatusOk(options, raw) ==
    LET vs == GetKey(options, kValidateStatus)
    IN IF Truthy(vs) THEN ApplyValidateStatus(vs.f, raw.status) ELSE raw.ok

\* ------------------------------------------------------------------------
\* State
\* ------------------------------------------------------------------------
VARIABLES
    heap,              \* the objects the caller created, by identity
    closureDefaults,   \* the object the closure variable defaults holds
    instanceDefaults,  \* the object the property redaxios.defaults holds
    document,          \* the ambient document: Undef, or its cookie string
    transport,         \* what the transport delivers: [raws, texts]
    calls,             \* the calls made on the instance, in order; each holds
                       \* its locals (options, request, response), and for the
                       \* properties its arguments, the heap and the object
                       \* instance.defaults held when it started (heap0, base0)
                       \* and what the decode method delivered (decoded)
    writes             \* the caller's writes to the defaults so far

vars == <<heap, closureDefaults, instanceDefaults, document, transport, calls, writes>>

\* A configuration literal the caller writes: its headers literal becomes
\* an object of its own on the heap.
AllocHeaders(h, cfg) ==
    IF cfg.t = "object" /\ GetKey(cfg.e, kHeaders).t = "object"
    THEN [heap |-> Append(h, GetKey(cfg.e, kHeaders).e),
          v |-> Obj(PutKey(cfg.e, kHeaders, Ref(Len(h) + 1)))]
    ELSE [heap |-> h, v |-> cfg]

\* lines 78-79 and 202: create(defaults).  The closure variable and the
\* property redaxios.defaults hold the same object.
Create(defaults, doc, tr) ==
    LET a == AllocHeaders(<<>>, OrElse(defaults, Obj(<<>>)))
    IN /\ heap = Append(a.heap, a.v.e)
       /\ closureDefaults = Len(a.heap) + 1
       /\ instanceDefaults = Len(a.heap) + 1
       /\ document = doc
       /\ transport = tr
       /\ calls = <<>>
       /\ writes = 0

NoRaw == [received |-> FALSE]
NoResult == [kind |-> "none"]

\* lines 81-145: the caller makes a call.  Everything up to the transport
\* invocation runs synchronously; a throw leaves the call without a promise.
Invoke(urlOrConfig, config, method, data) ==
    LET a1 == AllocHeaders(heap, urlOrConfig)
        a2 == AllocHeaders(a1.heap, config)
        r == redaxios(a2.heap, closureDefaults, a1.v, a2.v, method, data, document)
    IN /\ heap' = r.heap
       /\ calls' = Append(calls,
             [pc |-> IF r.threw THEN "thrown" ELSE "fetching",
              args |-> [urlOrConfig |-> a1.v, config |-> a2.v, method |-> method, data |-> data],
              heap0 |-> a2.heap,
              base0 |-> instanceDefaults,
              options |-> r.options,
              entered |-> r.entered,
              chain |-> r.chain,
              custom |-> r.custom,
              request |-> r.request,
              response |-> [config |-> r.config, raw |-> NoRaw, data |-> Undef],
              decoded |-> [kind |-> "none"],
              result |-> IF r.threw THEN [kind |-> "exception", name |-> r.error] ELSE NoResult])
       /\ UNCHANGED <<closureDefaults, instanceDefaults, document, transport, writes>>

\* lines 145-155: the transport promise fulfils with raw response `raw`;
\* its non-function properties are copied onto the Response.
FetchFulfil(c, raw) ==
    /\ c \in DOMAIN calls
    /\ calls[c].pc = "fetching"
    /\ calls' = [calls EXCEPT ![c] =
          IF IsStream(calls[c].options)
          THEN [@ EXCEPT !.pc = "resolved",
                         !.response = [@ EXCEPT !.raw = raw, !.data = raw.body],
                         !.result = [kind |-> "response"]]
          ELSE [@ EXCEPT !.pc = "decoding",
                         !.response = [@ EXCEPT !.raw = raw]]]
    /\ UNCHANGED <<heap, closureDefaults, instanceDefaults, document, transport, writes>>

\* The transport promise rejects: the rejection propagates unchanged.
FetchReject(c) ==
    /\ c \in DOMAIN calls
    /\ calls[c].pc = "fetching"
    /\ calls' = [calls EXCEPT ![c].pc = "rejected",
                              ![c].result = [kind |-> "error", name |-> "TransportError"]]
    /\ UNCHANGED <<heap, closureDefaults, instanceDefaults, document, transport, writes>>

\* lines 158-167: res[responseType]() fulfils with v
DecodeFulfil(c, v) ==
    /\ c \in DOMAIN calls
    /\ calls[c].pc = "decoding"
    /\ calls' = [calls EXCEPT ![c].pc = "validating",
                              ![c].decoded = [kind |-> "fulfilled", v |-> v],
                              ![c].response.data = DecodedData(v)]
    /\ UNCHANGED <<heap, closureDefaults, instanceDefaults, document, transport, writes>>

\* Mutation of DecodeReject: the rejection of the decode promise is not
\* caught and rejects the call
DecodeRejectSurfaces(c) ==
    /\ c \in DOMAIN calls
    /\ calls[c].pc = "decoding"
    /\ calls' = [calls EXCEPT ![c].pc = "rejected",
                              ![c].decoded = [kind |-> "rejected"],
                              ![c].result = [kind |-> "error", name |-> "DecodeError"]]
    /\ UNCHANGED <<heap, closureDefaults, instanceDefaults, document, transport, writes>>

\* lines 168-170: res[responseType]() rejects; the rejection is swallowed
DecodeReject(c) ==
    /\ c \in DOMAIN calls
    /\ calls[c].pc = "decoding"
    /\ calls' = [calls EXCEPT ![c].pc = "validating",
                              ![c].decoded = [kind |-> "rejected"]]
    /\ UNCHANGED <<heap, closureDefaults, instanceDefaults, document, transport, writes>>

\* Mutation of Settle: the raw ok flag decides, validateStatus is not asked
SettleByOkFlag(c) ==
    /\ c \in DOMAIN calls
    /\ calls[c].pc = "validating"
    /\ calls' = [calls EXCEPT
          ![c].pc = IF calls[c].response.raw.ok THEN "resolved" ELSE "rejected",
          ![c].result = [kind |-> "response"]]
    /\ UNCHANGED <<heap, closureDefaults, instanceDefaults, document, transport, writes>>

\* lines 171-174: status validation settles the call with its Response
Settle(c) ==
    /\ c \in DOMAIN calls
    /\ calls[c].pc = "validating"
    /\ calls' = [calls EXCEPT
          ![c].pc = IF StatusOk(calls[c].options, calls[c].response.raw)
                    THEN "resolved" ELSE "rejected",
          ![c].result = [kind |-> "response"]]
    /\ UNCHANGED <<heap, closureDefaults, instanceDefaults, document, transport, writes>>

\* The caller sets a property of instance.defaults
SetDefault(k, v) ==
    /\ writes < MaxWrites
    /\ heap' = [heap EXCEPT ![instanceDefaults] = PutKey(@, k, v)]
    /\ writes' = writes + 1
    /\ UNCHANGED <<closureDefaults, instanceDefaults, document, transport, calls>>

\* The caller assigns a new configuration to instance.defaults (line 202
\* makes defaults an ordinary property of the instance)
AssignDefaults(cfg) ==
    LET a == AllocHeaders(heap, cfg)
    IN /\ writes < MaxWrites
       /\ heap' = Append(a.heap, a.v.e)
       /\ instanceDefaults' = Len(a.heap) + 1
       /\ writes' = writes + 1
       /\ UNCHANGED <<closureDefaults, document, transport, calls>>

\* ------------------------------------------------------------------------
\* The environment: what the transport and the decode methods deliver
\* ------------------------------------------------------------------------
Raw(status, ok) ==
    [received |-> TRUE, status |-> status, ok |-> ok, body |-> Host("ReadableStream")]

\* What res[method]() can fulfil with, `texts` being the bodies read as text
DecodeValues(method, texts) ==
    CASE method = sText -> texts
      [] method = sJson -> {Num(1), Obj(<<>>)}
      [] method = sBlob -> {Host("Blob")}
      [] method = sArrayBuffer -> {Host("ArrayBuffer")}
      [] method = sFormData -> {Host("FormData")}
      [] OTHER -> {}

\* The steps of the promise chains of the calls in flight
Respond ==
    \/ \E c \in DOMAIN calls : \E raw \in transport.raws : FetchFulfil(c, raw)
    \/ \E c \in DOMAIN calls : FetchReject(c)
    \/ \E c \in DOMAIN calls :
          \E v \in DecodeValues(DecodeMethod(calls[c].options), transport.texts) :
              DecodeFulfil(c, v)
    \/ \E c \in DOMAIN calls : DecodeReject(c)
    \/ \E c \in DOMAIN calls : Settle(c)

\* ------------------------------------------------------------------------
\* Configuration literals
\* ------------------------------------------------------------------------
Entry(k, v) == [k |-> k, v |-> v]
xA == <<"X", "-", "A">>
xB == <<"X", "-", "B">>
pathA == <<"/", "a">>

\* ------------------------------------------------------------------------
\* Spec: calls on one instance, concurrent with each other and with the
\* caller's writes to instance.defaults
\* ------------------------------------------------------------------------
MainDefaults ==
    { Undef,
      Obj(<<Entry(kHeaders, Obj(<<Entry(xA, Str(<<"1">>))>>))>>),
      Obj(<<Entry(kTransformRequest, Arr(<<Fn("addHeader")>>))>>),
      Obj(<<Entry(kHeaders, Obj(<<Entry(xA, Str(<<"1">>))>>)),
            Entry(kTransformRequest, Arr(<<Fn("addHeader")>>))>>) }

MainConfigs ==
    { Undef,
      Obj(<<Entry(kHeaders, Obj(<<Entry(xB, Str(<<"2">>))>>))>>),
      Obj(<<Entry(kTransformRequest, Arr(<<Fn("addHeader")>>))>>) }

MainWrites ==
    { Entry(kBaseURL, Str(<<"b">>)),
      Entry(kValidateStatus, Fn("never")),
      Entry(kResponseType, Str(sStream)) }

MainAssigned == { Obj(<<Entry(kBaseURL, Str(<<"c">>))>>) }

MainTransport == [raws |-> {Raw(200, TRUE), Raw(404, FALSE)}, texts |-> {Str(<<"1">>)}]

Init == \E d \in MainDefaults : Create(d, Undef, MainTransport)

Call ==
    /\ Len(calls) < MaxCalls
    /\ \E config \in MainConfigs : Invoke(Str(pathA), config, Str(sGet), Undef)

Write ==
    \/ \E w \in MainWrites : SetDefault(w.k, w.v)
    \/ \E cfg \in MainAssigned : AssignDefaults(cfg)

Next == Call \/ Respond \/ Write

Spec == Init /\ [][Next]_vars

\* ------------------------------------------------------------------------
\* SpecSettle: one call with any response type and status validator,
\* against a transport whose ok flag may disagree with the status, while
\* the caller writes to instance.defaults
\* ------------------------------------------------------------------------
ResponseTypes == {sText, sJson, sBlob, sArrayBuffer, sFormData, sStream}
ValidateFns == {"lt500", "never", "always"}

Optional(k, vs) == {<<>>} \cup {<<Entry(k, v)>> : v \in vs}

SettleConfigs ==
    {Obj(rt \o vs) : rt \in Optional(kResponseType, {Str(r) : r \in ResponseTypes}),
                     vs \in Optional(kValidateStatus, {Fn(f) : f \in ValidateFns})}

SettleDefaults ==
    { Undef,
      Obj(<<Entry(kValidateStatus, Fn("never"))>>),
      Obj(<<Entry(kResponseType, Str(sStream))>>) }

SettleWrites ==
    { Entry(kValidateStatus, Fn("always")),
      Entry(kResponseType, Str(sStream)),
      Entry(kResponseType, Str(sText)) }

SettleTransport ==
    [raws |-> {Raw(200, TRUE), Raw(404, FALSE), Raw(500, FALSE), Raw(404, TRUE), Raw(200, FALSE)},
     texts |-> {Str(<<"1">>), Str(<<"o", "k">>), Str(<<"{", "}">>), Str(<<>>)}]

InitSettle == \E d \in SettleDefaults : Create(d, Undef, SettleTransport)

CallSettle ==
    /\ calls = <<>>
    /\ \E config \in SettleConfigs : Invoke(Str(pathA), config, Str(sGet), Undef)

WriteSettle == \E w \in SettleWrites : SetDefault(w.k, w.v)

NextSettle == CallSettle \/ Respond \/ WriteSettle

SpecSettle == InitSettle /\ [][NextSettle]_vars

\* ------------------------------------------------------------------------
\* SpecHeaders: one call whose defaults and call-site config name the
\* headers the pipeline computes, in several letter cases
\* ------------------------------------------------------------------------
hAuthorizationCap == <<"A", "u", "t", "h", "o", "r", "i", "z", "a", "t", "i", "o", "n">>
hAuthorizationUp == <<"A", "U", "T", "H", "O", "R", "I", "Z", "A", "T", "I", "O", "N">>
hContentTypeCap == <<"C", "o", "n", "t", "e", "n", "t", "-", "T", "y", "p", "e">>
hContentTypeUp == <<"C", "O", "N", "T", "E", "N", "T", "-", "T", "Y", "P", "E">>
hContentTypeMixed == <<"C", "o", "n", "t", "e", "n", "t", "-", "t", "y", "p", "e">>
hXsrfCap == <<"X", "-", "X", "S", "R", "F", "-", "T", "O", "K", "E", "N">>
hXsrfLow == <<"x", "-", "x", "s", "r", "f", "-", "t", "o", "k", "e", "n">>
tokenCookie == <<"t">>

HeaderDefaults ==
    { Undef,
      Obj(<<Entry(kHeaders, Obj(<<Entry(hAuthorizationCap, Str(<<"d">>))>>))>>),
      Obj(<<Entry(kHeaders, Obj(<<Entry(hContentTypeCap, Str(<<"d">>)),
                                  Entry(hXsrfCap, Str(<<"d">>))>>))>>),
      Obj(<<Entry(kHeaders, Obj(<<Entry(hContentTypeUp, Str(<<"d">>)),
                                  Entry(sContentType, Str(<<"e">>))>>)),
            Entry(kAuth, Str(<<"D">>))>>) }

HeaderLiterals ==
    { Obj(<<Entry(sAuthorization, Str(<<"c">>))>>),
      Obj(<<Entry(hContentTypeMixed, Str(<<"c">>))>>),
      Obj(<<Entry(hXsrfLow, Str(<<"c">>)), Entry(hAuthorizationUp, Str(<<"c">>))>>) }

XsrfOptions ==
    { <<>>,
      <<Entry(kXsrfCookieName, Str(tokenCookie)), Entry(kXsrfHeaderName, Str(hXsrfCap))>>,
      <<Entry(kXsrfCookieName, Str(tokenCookie)), Entry(kXsrfHeaderName, Str(hAuthorizationCap))>> }

HeaderConfigs ==
    {Obj(hs \o au \o xs) : hs \in Optional(kHeaders, HeaderLiterals),
                           au \in Optional(kAuth, {Str(<<"B">>)}),
                           xs \in XsrfOptions}

\* document.cookie holds the token t=%41 (the letter A, percent-encoded),
\* or another cookie only, or there is no document
HeaderDocuments ==
    { Undef,
      Str(<<"u", "=", "1", ";", " ", "t", "=", "%", "4", "1">>),
      Str(<<"u", "=", "1">>) }

HeaderBodies == {Undef, Obj(<<Entry(<<"a">>, Num(1))>>)}

PlainTransport == [raws |-> {Raw(200, TRUE)}, texts |-> {Str(<<"1">>)}]

InitHeaders ==
    \E d \in HeaderDefaults : \E doc \in HeaderDocuments : Create(d, doc, PlainTransport)

CallHeaders ==
    /\ calls = <<>>
    /\ \E config \in HeaderConfigs : \E body \in HeaderBodies :
          Invoke(Str(pathA), config, Str(sPost), body)

NextHeaders == CallHeaders \/ Respond

SpecHeaders == InitHeaders /\ [][NextHeaders]_vars

\* ------------------------------------------------------------------------
\* SpecUrl: one call whose URL and baseURL range over the strings of at
\* most MaxLen characters
\* ------------------------------------------------------------------------
Strings(chars, n) == UNION {[1..k -> chars] : k \in 0..n}

UrlChars == {"/", "a"}
BaseURLChars == {"b", "$", "&"}

Urls == Strings(UrlChars, MaxLen)
BaseURLs == Strings(BaseURLChars, MaxLen) \ {<<>>}

UrlDefaults == {Undef, Obj(<<Entry(kBaseURL, Str(<<"d">>))>>)}

UrlConfigs == {Obj(b) : b \in Optional(kBaseURL, {Str(u) : u \in BaseURLs})}

InitUrl == \E d \in UrlDefaults : Create(d, Undef, PlainTransport)

CallUrl ==
    /\ calls = <<>>
    /\ \E url \in Urls : \E config \in UrlConfigs :
          Invoke(Str(url), config, Str(sGet), Undef)

NextUrl == CallUrl \/ Respond

SpecUrl == InitUrl /\ [][NextUrl]_vars

\* ------------------------------------------------------------------------
\* SpecBody: one call of post or put with an explicit body argument of any
\* kind, or none, on defaults and call-site configs that hold a data field
\* or a transform chain
\* ------------------------------------------------------------------------
BigInt == [t |-> "bigint"]
sPut == <<"p", "u", "t">>

BodyDefaults ==
    { Undef,
      Obj(<<Entry(kData, Str(<<"d">>))>>),
      Obj(<<Entry(kTransformRequest, Arr(<<Fn("appendA")>>))>>) }

BodyConfigs ==
    { Undef,
      Obj(<<Entry(kData, Str(<<"c">>))>>),
      Obj(<<Entry(kTransformRequest, Arr(<<Fn("appendB")>>))>>) }

Bodies ==
    { Undef, Null, Str(<<>>), Str(<<"x">>), Num(0), Num(1), Bool(FALSE), Bool(TRUE),
      Obj(<<Entry(<<"a">>, Num(1))>>),
      Obj(<<Entry(<<"n">>, BigInt)>>) }

InitBody == \E d \in BodyDefaults : Create(d, Undef, PlainTransport)

CallBody ==
    /\ calls = <<>>
    /\ \E config \in BodyConfigs : \E body \in Bodies : \E method \in {sPost, sPut} :
          Invoke(Str(pathA), config, Str(method), body)

NextBody == CallBody \/ Respond

SpecBody == InitBody /\ [][NextBody]_vars

\* ------------------------------------------------------------------------
\* Properties
\* ------------------------------------------------------------------------
\* The resolved configuration of call c: the merge of the closure's
\* defaults, as they were when the call started, with the call-site config
ResolvedConfig(c) ==
    deepMerge(calls[c].heap0, Ref(closureDefaults), calls[c].response.config, FALSE).e

Option(c, k) == GetKey(ResolvedConfig(c), k)

\* The call has settled with its Response after a raw response arrived
SettledWithRaw(c) ==
    /\ calls[c].pc \in {"resolved", "rejected"}
    /\ calls[c].response.raw.received

\* The raw response of call c fails the success predicate
FailsPredicate(c) ==
    IF Option(c, kValidateStatus).t = "function"
    THEN ~ApplyValidateStatus(Option(c, kValidateStatus).f, calls[c].response.raw.status)
    ELSE ~calls[c].response.raw.ok

StreamConfigured(c) == Option(c, kResponseType) = Str(sStream)

RejectedWithResponse(c) ==
    /\ calls[c].pc = "rejected"
    /\ calls[c].result.kind = "response"
    /\ calls[c].response.raw \in transport.raws

\* C1 as stated: a raw response that fails the success predicate rejects
\* the call with its Response, for every responseType, 'stream' included.
C1_RejectsForEveryResponseType ==
    \A c \in DOMAIN calls :
        (SettledWithRaw(c) /\ FailsPredicate(c)) => RejectedWithResponse(c)

\* C1 as amended: a raw response that fails the success predicate rejects
\* the call with its Response carrying the raw status for every
\* responseType other than 'stream'; with 'stream' the call resolves with
\* its Response whatever the status.
C1_RejectsUnlessStream ==
    \A c \in DOMAIN calls :
        /\ (SettledWithRaw(c) /\ FailsPredicate(c) /\ ~StreamConfigured(c))
              => RejectedWithResponse(c)
        /\ (calls[c].response.raw.received /\ StreamConfigured(c))
              => /\ calls[c].pc = "resolved"
                 /\ calls[c].result.kind = "response"
                 /\ calls[c].response.raw \in transport.raws

\* A 404 without validateStatus has rejected a call that decodes a blob,
\* and a 404 has resolved a call that asked for a stream
C1_Witness ==
    /\ \E c \in DOMAIN calls :
          /\ RejectedWithResponse(c)
          /\ calls[c].response.raw.status = 404
          /\ Option(c, kValidateStatus) = Undef
          /\ Option(c, kResponseType) = Str(sBlob)

C1_StreamWitness ==
    \E c \in DOMAIN calls :
        /\ calls[c].pc = "resolved"
        /\ StreamConfigured(c)
        /\ calls[c].response.raw.received
        /\ FailsPredicate(c)

\* C2: a call that went through the decode step resolves exactly when
\* validateStatus(status) is truthy if validateStatus is supplied in the
\* resolved configuration (whatever the ok flag), and exactly when the raw
\* ok flag is truthy if it is not.
C2_OnePredicateDecides ==
    \A c \in DOMAIN calls :
        (SettledWithRaw(c) /\ ~StreamConfigured(c)) =>
            /\ calls[c].result.kind = "response"
            /\ (calls[c].pc = "resolved") <=>
                  IF Option(c, kValidateStatus).t = "function"
                  THEN ApplyValidateStatus(Option(c, kValidateStatus).f,
                                           calls[c].response.raw.status)
                  ELSE calls[c].response.raw.ok

\* validateStatus s < 500 has resolved a 404 whose ok flag is false, and a
\* validateStatus that returns false has rejected a 200 whose ok flag is true
C2_Witness ==
    /\ \E c \in DOMAIN calls :
          /\ calls[c].pc = "resolved"
          /\ Option(c, kValidateStatus) = Fn("lt500")
          /\ calls[c].response.raw.received
          /\ calls[c].response.raw.status = 404
          /\ ~calls[c].response.raw.ok
          /\ calls[c].decoded.kind /= "none"

\* What response.data holds after the decode method delivered v
ExpectedData(v) ==
    CASE v = Str(<<"1">>) -> Num(1)
      [] v = Str(<<"{", "}">>) -> Obj(<<>>)
      [] OTHER -> v

\* C8: a rejected decode promise or a failed JSON parse never rejects the
\* call by itself: status validation decides the outcome, and data is
\* unset after a failed decode, the decoded value after a failed parse,
\* the parsed value after a successful parse.
C8_DecodeFailureIsSwallowed ==
    \A c \in DOMAIN calls :
        (calls[c].decoded.kind /= "none") =>
            /\ calls[c].pc \in {"validating", "resolved", "rejected"}
            /\ calls[c].decoded.kind = "rejected" => calls[c].response.data = Undef
            /\ calls[c].decoded.kind = "fulfilled" =>
                  calls[c].response.data = ExpectedData(calls[c].decoded.v)
            /\ calls[c].pc \in {"resolved", "rejected"} =>
                  /\ calls[c].result.kind = "response"
                  /\ (calls[c].pc = "rejected") <=> FailsPredicate(c)

\* A call whose decode promise rejected has resolved with data unset
C8_Witness ==
    \E c \in DOMAIN calls :
        /\ calls[c].decoded.kind = "rejected"
        /\ calls[c].pc = "resolved"
        /\ calls[c].response.data = Undef

IsLowerCase(k) == \A i \in DOMAIN k : IndexIn(UpperLetters, k[i]) = 0

\* The XSRF step of call c found the token cookie t=%41, whose value
\* decodes to A
XsrfComputed(c) ==
    /\ Truthy(Option(c, kXsrfCookieName))
    /\ Truthy(Option(c, kXsrfHeaderName))
    /\ document = Str(<<"u", "=", "1", ";", " ", "t", "=", "%", "4", "1">>)

\* The value the pipeline computed for header `name` in call c, Undef when
\* it computed none.  The steps run in the order auth, content-type, XSRF,
\* and a later step that computes the same name replaces the earlier value.
ComputedHeader(c, name) ==
    IF XsrfComputed(c) /\ ToLowerCase(Option(c, kXsrfHeaderName).s) = name
    THEN Str(<<"A">>)
    ELSE IF name = sContentType /\ calls[c].args.data.t = "object"
    THEN Str(sApplicationJson)
    ELSE IF name = sAuthorization /\ Truthy(Option(c, kAuth))
    THEN Option(c, kAuth)
    ELSE Undef

\* The header mappings the caller gave: in the defaults and at the call site
DefaultHeaders(c) ==
    EntriesOf(calls[c].heap0, GetKey(calls[c].heap0[closureDefaults], kHeaders))

CallSiteHeaders(c) ==
    EntriesOf(calls[c].heap0, GetKey(EntriesOf(calls[c].heap0, calls[c].args.config), kHeaders))

\* C3: the headers handed to the transport have lower-case keys, one entry
\* per name; a header the pipeline computed (authorization from auth,
\* content-type from JSON encoding, the XSRF header from the cookie) holds
\* the computed value whatever the caller supplied under that name in any
\* letter case; and of a default header and a call-site header that differ
\* only in case, one entry remains and holds the call-site value.
C3_ComputedHeadersWin ==
    \A c \in DOMAIN calls :
        calls[c].request.sent =>
            LET H == calls[c].request.headers
            IN /\ \A i \in DOMAIN H : IsLowerCase(H[i].k)
               /\ \A i, j \in DOMAIN H : H[i].k = H[j].k => i = j
               /\ \A name \in {sAuthorization, sContentType, hXsrfLow} :
                     ComputedHeader(c, name) /= Undef =>
                        GetKey(H, name) = ComputedHeader(c, name)
               /\ \A i \in DOMAIN CallSiteHeaders(c) : \A j \in DOMAIN DefaultHeaders(c) :
                     LET cs == CallSiteHeaders(c)[i]
                         ds == DefaultHeaders(c)[j]
                     IN (/\ ToLowerCase(cs.k) = ToLowerCase(ds.k)
                         /\ cs.k /= ds.k
                         /\ ComputedHeader(c, ToLowerCase(cs.k)) = Undef)
                        => GetKey(H, ToLowerCase(cs.k)) = cs.v

\* A call was dispatched with authorization B computed from auth, although
\* the defaults hold Authorization and the call site holds authorization
C3_Witness ==
    \E c \in DOMAIN calls :
        /\ calls[c].request.sent
        /\ HasKey(DefaultHeaders(c), hAuthorizationCap)
        /\ HasKey(CallSiteHeaders(c), sAuthorization)
        /\ Option(c, kAuth) = Str(<<"B">>)
        /\ ~XsrfComputed(c)
        /\ GetKey(calls[c].request.headers, sAuthorization) = Str(<<"B">>)

\* "//" occurs in url
ContainsDoubleSlash(url) ==
    \E i \in 1..(Len(url) - 1) : url[i] = "/" /\ url[i + 1] = "/"

\* url with at most one leading "/" removed
WithoutLeadingSlash(url) ==
    IF url /= <<>> /\ Head(url) = "/" THEN Tail(url) ELSE url

\* C4: with a non-empty baseURL in the resolved configuration the URL given
\* to the transport is the request URL unchanged when it contains "//",
\* else baseURL + "/" + the request URL with at most one leading "/"
\* removed; without baseURL the URL is unchanged.  (The calls of SpecUrl
\* have no params, so the dispatched URL is the URL before any query
\* string.)
C4_BaseURLComposition ==
    \A c \in DOMAIN calls :
        calls[c].request.sent =>
            LET url == calls[c].args.urlOrConfig.s
                base == Option(c, kBaseURL)
            IN calls[c].request.url =
                  IF ~Truthy(base) \/ ContainsDoubleSlash(url) THEN url
                  ELSE base.s \o <<"/">> \o WithoutLeadingSlash(url)

\* C5: the body that enters the transform chain is the explicit body
\* argument whenever the caller supplied one, for every value, and the data
\* field of the resolved configuration only when none was supplied
C5_ExplicitBodyIsUsed ==
    \A c \in DOMAIN calls :
        calls[c].entered =
            IF calls[c].args.data /= Undef THEN calls[c].args.data
            ELSE Option(c, kData)

\* C6: when the defaults and the call-site config both hold an array under
\* transformRequest, the resolved configuration holds the defaults' array
\* followed by the call-site array, and that is the chain the call runs
C6_ArraysAreConcatenated ==
    \A c \in DOMAIN calls :
        LET A == GetKey(calls[c].heap0[closureDefaults], kTransformRequest)
            B == GetKey(EntriesOf(calls[c].heap0, calls[c].args.config), kTransformRequest)
        IN (IsArray(A) /\ IsArray(B)) =>
              /\ Option(c, kTransformRequest) = Arr(A.a \o B.a)
              /\ calls[c].chain = Arr(A.a \o B.a)

\* JSON serialization of the body of call c throws: the body that entered
\* an empty transform chain is serialised and JSON.stringify throws on it
SerializationThrows(c) ==
    /\ calls[c].chain = Arr(<<>>)
    /\ IsJsonBody(calls[c].heap0, calls[c].entered)
    /\ ~JSONStringify(calls[c].heap0, calls[c].entered, {}).ok

\* C7: if JSON serialization of the request body throws, the transport is
\* not invoked and the call returns a promise that rejects, instead of
\* raising at the call site
C7_SerializationFailureRejects ==
    \A c \in DOMAIN calls :
        SerializationThrows(c) =>
            /\ ~calls[c].request.sent
            /\ calls[c].pc = "rejected"

\* What call c would do had it been made on the object instance.defaults
\* held when it started
OnDefaultsAtStart(c) ==
    redaxios(calls[c].heap0, calls[c].base0, calls[c].args.urlOrConfig,
             calls[c].args.config, calls[c].args.method, calls[c].args.data, document)

\* C9: each call uses as merge base the instance's defaults as they are
\* when the call starts, whether the caller set a property of
\* instance.defaults or assigned a new configuration to it; writes made
\* after the start change nothing in the call: its request, its stream
\* handling and its validateStatus outcome are those of the start
C9_DefaultsAsAtCallStart ==
    \A c \in DOMAIN calls :
        LET r == OnDefaultsAtStart(c)
        IN /\ calls[c].request = r.request
           /\ (calls[c].pc \in {"decoding", "validating"} => ~IsStream(r.options))
           /\ (calls[c].pc \in {"resolved", "rejected"} /\ calls[c].result.kind = "response") =>
                 (calls[c].pc = "resolved") =
                    (IsStream(r.options) \/ StatusOk(r.options, calls[c].response.raw))

\* C10: a call leaves the instance defaults and the call-site config
\* unchanged, also when a transformRequest function writes to its headers
\* argument: the header X-Added, which only such a transform writes, is in
\* no object of the caller, and is dispatched by no call whose own chain
\* does not add it
C10_CallLeavesConfigsUnchanged ==
    /\ \A id \in DOMAIN heap : ~HasKey(heap[id], xAdded)
    /\ \A c \in DOMAIN calls :
          (calls[c].request.sent /\ \A i \in DOMAIN calls[c].chain.a :
                                       calls[c].chain.a[i] /= Fn("addHeader"))
             => ~HasKey(calls[c].request.headers, ToLowerCase(xAdded))

====
